---- MODULE Spec2Model ----
(***************************************************************************)
(* The Tauri command load_audio_asset of src-tauri/src/lib.rs.             *)
(*                                                                         *)
(* A call first (debug builds only) reads CARGO_MANIFEST_DIR and probes    *)
(* <manifest dir>/resources/audio/<filename>, then walks four resource     *)
(* relative candidates, resolving each against the resource directory,     *)
(* and returns the bytes of the first path found to exist.                 *)
(*                                                                         *)
(* Every access to a collaborator (the process environment, the resolver,  *)
(* the filesystem) is one step of a caller, so that other callers and the  *)
(* outside world (a file removed between exists() and read()) interleave   *)
(* with it.  Paths and messages are strings built as the code builds them. *)
(***************************************************************************)
EXTENDS Naturals, Sequences, FiniteSets, TLC

\* ------------------------------------------------------------- bounds
\* Number of invocation slots (concurrent command invocations).
NumCallers == 2
\* Number of changes the outside world makes to the filesystem or resolver.
MaxChanges == 1
\* The filenames the front-end asks for (relative, as the data model says).
Filenames == {"chime.wav", "missing.wav"}
\* The names a file may exist under; no file is ever called missing.wav.
OnDisk == {"chime.wav"}

Callers == 1..NumCallers

\* ------------------------------------------------------- collaborators
\* The value CARGO_MANIFEST_DIR has when it is set.
ManifestDirValue == "/proj/src-tauri"
\* The directory BaseDirectory::Resource stands for.
ResourceDir == "/opt/app"

FileStates == {"absent", "readable", "unreadable"}

\* Result<T, E>
Ok(v) == [ok |-> TRUE, val |-> v]
Err(e) == [ok |-> FALSE, val |-> e]
NoResult == [ok |-> FALSE, val |-> ""]

\* PathBuf::push / Path::join of a relative segment.
Push(base, seg) == base \o "/" \o seg

\* A slip: the second candidate is put first.
MaybePathsSwapped(f) ==
    << "resources/" \o f, "resources/audio/" \o f, "audio/" \o f, f >>

\* lines 30-35: the candidate list, built per request.
MaybePaths(f) ==
    << "resources/audio/" \o f, "resources/" \o f, "audio/" \o f, f >>

\* lines 19-22: the development path.
DevPath(dir, f) == Push(Push(dir, "resources/audio"), f)

Range(s) == {s[i] : i \in DOMAIN s}
RelPathsOf(names) == UNION {Range(MaybePaths(f)) : f \in names}
PathsOf(names) == {DevPath(ManifestDirValue, f) : f \in names}
                     \cup {Push(ResourceDir, r) : r \in RelPathsOf(names)}
RelPaths == RelPathsOf(Filenames)
Paths == PathsOf(Filenames)

\* What a file holds: content that tells it from every other file.
Contents(p) == "bytes of " \o p

VARIABLES
    debug_assertions,  \* cfg(debug_assertions): TRUE in a development build
    cargoManifestDir,  \* std::env::var("CARGO_MANIFEST_DIR"): Ok(dir) or Err
    fs,                \* the filesystem: path -> FileStates
    unresolvable,      \* relative paths the resource resolver fails on
    pc,                \* caller -> position in load_audio_asset
    filename,          \* caller -> the argument
    idx,               \* caller -> position in maybe_paths (0: not in the loop)
    path,              \* caller -> dev_path / path
    result,            \* caller -> the returned Result
    ops,               \* caller -> what the call asked of its collaborators
    stable,            \* caller -> nothing outside changed since the call began
    changes            \* changes made by the outside world so far

vars == << debug_assertions, cargoManifestDir, fs, unresolvable, pc, filename,
           idx, path, result, ops, stable, changes >>
envVars == << debug_assertions, cargoManifestDir, fs, unresolvable, changes >>

\* ------------------------------------------------------------ messages
VarErrorNotPresent == "environment variable not found"
IoNotFound == "No such file or directory (os error 2)"
IoPermissionDenied == "Permission denied (os error 13)"
IoCauses == {IoNotFound, IoPermissionDenied}

ResolveError == "unknown path"

\* {:?} of a path: the path in double quotes.
Debug(p) == "\"" \o p \o "\""
\* line 25
DevReadMsg(p, e) == "Failed to read file from dev path " \o Debug(p) \o ": " \o e
\* line 41
ReadMsg(p, e) == "Failed to read file at " \o Debug(p) \o ": " \o e
\* line 48
NotFoundMsg(f) == "Could not find audio file " \o f \o " in resources"

\* ------------------------------------------------- collaborator calls
\* Path::exists
Exists(p) == fs[p] # "absent"

\* fs::read
FsRead(p) ==
    CASE fs[p] = "readable" -> Ok(Contents(p))
      [] fs[p] = "unreadable" -> Err(IoPermissionDenied)
      [] OTHER -> Err(IoNotFound)

\* app.path().resolve(path_str, BaseDirectory::Resource)
Resolve(rel) ==
    IF rel \in unresolvable THEN Err(ResolveError) ELSE Ok(Push(ResourceDir, rel))

Op(kind, p, good) == [op |-> kind, path |-> p, ok |-> good]

\* --------------------------------------------------------------- steps
Init ==
    /\ debug_assertions \in BOOLEAN
    /\ cargoManifestDir \in {Ok(ManifestDirValue), Err(VarErrorNotPresent)}
    /\ fs \in {g \in [Paths -> FileStates] :
                \A p \in Paths \ PathsOf(OnDisk) : g[p] = "absent"}
    /\ unresolvable \in SUBSET RelPathsOf(OnDisk)
    /\ pc = [c \in Callers |-> "idle"]
    /\ filename = [c \in Callers |-> ""]
    /\ idx = [c \in Callers |-> 0]
    /\ path = [c \in Callers |-> ""]
    /\ result = [c \in Callers |-> NoResult]
    /\ ops = [c \in Callers |-> << >>]
    /\ stable = [c \in Callers |-> TRUE]
    /\ changes = 0

\* A slip: the development block is compiled into every build.
InvokeAnyBuild(c, f) ==
    /\ pc[c] \in {"idle", "done"}
    /\ filename' = [filename EXCEPT ![c] = f]
    /\ pc' = [pc EXCEPT ![c] = "env"]
    /\ idx' = [idx EXCEPT ![c] = 0]
    /\ path' = [path EXCEPT ![c] = ""]
    /\ result' = [result EXCEPT ![c] = NoResult]
    /\ ops' = [ops EXCEPT ![c] = << >>]
    /\ stable' = [stable EXCEPT ![c] = TRUE]
    /\ UNCHANGED envVars

\* A slip: the bytes of the previous call are kept and handed out again.
InvokeCached(c, f) ==
    /\ pc[c] \in {"idle", "done"}
    /\ filename' = [filename EXCEPT ![c] = f]
    /\ ops' = [ops EXCEPT ![c] = << >>]
    /\ stable' = [stable EXCEPT ![c] = TRUE]
    /\ path' = [path EXCEPT ![c] = ""]
    /\ IF pc[c] = "done" /\ filename[c] = f /\ result[c].ok
         THEN /\ pc' = [pc EXCEPT ![c] = "done"]
              /\ idx' = [idx EXCEPT ![c] = 0]
              /\ UNCHANGED result
         ELSE /\ pc' = [pc EXCEPT ![c] = IF debug_assertions THEN "env" ELSE "resolve"]
              /\ idx' = [idx EXCEPT ![c] = IF debug_assertions THEN 0 ELSE 1]
              /\ result' = [result EXCEPT ![c] = NoResult]
    /\ UNCHANGED envVars

\* line 12: the command is invoked; a debug build enters the block of line 14.
Invoke(c, f) ==
    /\ pc[c] \in {"idle", "done"}
    /\ filename' = [filename EXCEPT ![c] = f]
    /\ pc' = [pc EXCEPT ![c] = IF debug_assertions THEN "env" ELSE "resolve"]
    /\ idx' = [idx EXCEPT ![c] = IF debug_assertions THEN 0 ELSE 1]
    /\ path' = [path EXCEPT ![c] = ""]
    /\ result' = [result EXCEPT ![c] = NoResult]
    /\ ops' = [ops EXCEPT ![c] = << >>]
    /\ stable' = [stable EXCEPT ![c] = TRUE]
    /\ UNCHANGED envVars

\* lines 18-22: read CARGO_MANIFEST_DIR (`?` returns its error), build dev_path.
EnvVar(c) ==
    /\ pc[c] = "env"
    /\ IF cargoManifestDir.ok
         THEN /\ path' = [path EXCEPT ![c] = DevPath(cargoManifestDir.val, filename[c])]
              /\ pc' = [pc EXCEPT ![c] = "devExists"]
              /\ UNCHANGED result
         ELSE /\ result' = [result EXCEPT ![c] = Err(cargoManifestDir.val)]
              /\ pc' = [pc EXCEPT ![c] = "done"]
              /\ UNCHANGED path
    /\ UNCHANGED << envVars, filename, idx, ops, stable >>

\* line 24: dev_path.exists(); if not, fall out of the block to line 30.
DevExists(c) ==
    /\ pc[c] = "devExists"
    /\ ops' = [ops EXCEPT ![c] = Append(@, Op("exists", path[c], Exists(path[c])))]
    /\ IF Exists(path[c])
         THEN /\ pc' = [pc EXCEPT ![c] = "devRead"]
              /\ UNCHANGED idx
         ELSE /\ pc' = [pc EXCEPT ![c] = "resolve"]
              /\ idx' = [idx EXCEPT ![c] = 1]
    /\ UNCHANGED << envVars, filename, path, result, stable >>

\* A slip: a failed read of dev_path falls through to the production search.
DevReadFallsThrough(c) ==
    /\ pc[c] = "devRead"
    /\ LET r == FsRead(path[c]) IN
         /\ ops' = [ops EXCEPT ![c] = Append(@, Op("read", path[c], r.ok))]
         /\ IF r.ok
              THEN /\ result' = [result EXCEPT ![c] = r]
                   /\ pc' = [pc EXCEPT ![c] = "done"]
                   /\ UNCHANGED idx
              ELSE /\ pc' = [pc EXCEPT ![c] = "resolve"]
                   /\ idx' = [idx EXCEPT ![c] = 1]
                   /\ UNCHANGED result
    /\ UNCHANGED << envVars, filename, path, stable >>

\* line 25: return fs::read(&dev_path).map_err(...)
DevRead(c) ==
    /\ pc[c] = "devRead"
    /\ LET r == FsRead(path[c]) IN
         /\ ops' = [ops EXCEPT ![c] = Append(@, Op("read", path[c], r.ok))]
         /\ result' = [result EXCEPT ![c] =
                          IF r.ok THEN r ELSE Err(DevReadMsg(path[c], r.val))]
    /\ pc' = [pc EXCEPT ![c] = "done"]
    /\ UNCHANGED << envVars, filename, idx, path, stable >>

\* lines 37, 46-48: the next iteration of the loop, or the final Err.
Advance(c) ==
    IF idx[c] < Len(MaybePaths(filename[c]))
      THEN /\ idx' = [idx EXCEPT ![c] = @ + 1]
           /\ pc' = [pc EXCEPT ![c] = "resolve"]
           /\ UNCHANGED result
      ELSE /\ result' = [result EXCEPT ![c] = Err(NotFoundMsg(filename[c]))]
           /\ pc' = [pc EXCEPT ![c] = "done"]
           /\ UNCHANGED idx

\* A slip: the resolver's error is returned (`?` in place of the match).
ResolveStepPropagates(c) ==
    /\ pc[c] = "resolve"
    /\ LET path_str == MaybePaths(filename[c])[idx[c]]
           r == Resolve(path_str) IN
         /\ ops' = [ops EXCEPT ![c] = Append(@, Op("resolve", path_str, r.ok))]
         /\ IF r.ok
              THEN /\ path' = [path EXCEPT ![c] = r.val]
                   /\ pc' = [pc EXCEPT ![c] = "exists"]
                   /\ UNCHANGED << idx, result >>
              ELSE /\ result' = [result EXCEPT ![c] = r]
                   /\ pc' = [pc EXCEPT ![c] = "done"]
                   /\ UNCHANGED << idx, path >>
    /\ UNCHANGED << envVars, filename, stable >>

\* A slip: the resolved path is kept in one place that all calls share.
ResolveStepSharedPath(c) ==
    /\ pc[c] = "resolve"
    /\ LET path_str == MaybePaths(filename[c])[idx[c]]
           r == Resolve(path_str) IN
         /\ ops' = [ops EXCEPT ![c] = Append(@, Op("resolve", path_str, r.ok))]
         /\ IF r.ok
              THEN /\ path' = [d \in Callers |-> r.val]
                   /\ pc' = [pc EXCEPT ![c] = "exists"]
                   /\ UNCHANGED << idx, result >>
              ELSE /\ Advance(c)
                   /\ UNCHANGED path
    /\ UNCHANGED << envVars, filename, stable >>

\* lines 38-39, 44: resolve the candidate; Err(_) => {} goes on with the loop.
ResolveStep(c) ==
    /\ pc[c] = "resolve"
    /\ LET path_str == MaybePaths(filename[c])[idx[c]]
           r == Resolve(path_str) IN
         /\ ops' = [ops EXCEPT ![c] = Append(@, Op("resolve", path_str, r.ok))]
         /\ IF r.ok
              THEN /\ path' = [path EXCEPT ![c] = r.val]
                   /\ pc' = [pc EXCEPT ![c] = "exists"]
                   /\ UNCHANGED << idx, result >>
              ELSE /\ Advance(c)
                   /\ UNCHANGED path
    /\ UNCHANGED << envVars, filename, stable >>

\* line 40: path.exists()
ExistsStep(c) ==
    /\ pc[c] = "exists"
    /\ ops' = [ops EXCEPT ![c] = Append(@, Op("exists", path[c], Exists(path[c])))]
    /\ IF Exists(path[c])
         THEN /\ pc' = [pc EXCEPT ![c] = "read"]
              /\ UNCHANGED << idx, result >>
         ELSE Advance(c)
    /\ UNCHANGED << envVars, filename, path, stable >>

\* A slip: a failed read goes on with the next candidate.
ReadStepFallsThrough(c) ==
    /\ pc[c] = "read"
    /\ LET r == FsRead(path[c]) IN
         /\ ops' = [ops EXCEPT ![c] = Append(@, Op("read", path[c], r.ok))]
         /\ IF r.ok
              THEN /\ result' = [result EXCEPT ![c] = r]
                   /\ pc' = [pc EXCEPT ![c] = "done"]
                   /\ UNCHANGED idx
              ELSE Advance(c)
    /\ UNCHANGED << envVars, filename, path, stable >>

\* line 41: return fs::read(&path).map_err(...)
ReadStep(c) ==
    /\ pc[c] = "read"
    /\ LET r == FsRead(path[c]) IN
         /\ ops' = [ops EXCEPT ![c] = Append(@, Op("read", path[c], r.ok))]
         /\ result' = [result EXCEPT ![c] =
                          IF r.ok THEN r ELSE Err(ReadMsg(path[c], r.val))]
    /\ pc' = [pc EXCEPT ![c] = "done"]
    /\ UNCHANGED << envVars, filename, idx, path, stable >>

\* The outside world: a file appears, disappears or changes its permissions.
FsChange(p, s) ==
    /\ changes < MaxChanges
    /\ fs[p] # s
    /\ fs' = [fs EXCEPT ![p] = s]
    /\ changes' = changes + 1
    /\ stable' = [c \in Callers |-> FALSE]
    /\ UNCHANGED << debug_assertions, cargoManifestDir, unresolvable, pc,
                    filename, idx, path, result, ops >>

\* The outside world: the resolver starts or stops failing on a relative path.
ResolverChange(r) ==
    /\ changes < MaxChanges
    /\ unresolvable' = IF r \in unresolvable THEN unresolvable \ {r}
                                             ELSE unresolvable \cup {r}
    /\ changes' = changes + 1
    /\ stable' = [c \in Callers |-> FALSE]
    /\ UNCHANGED << debug_assertions, cargoManifestDir, fs, pc,
                    filename, idx, path, result, ops >>

CallerStep(c) ==
    \/ \E f \in Filenames : Invoke(c, f)
    \/ EnvVar(c)
    \/ DevExists(c)
    \/ DevRead(c)
    \/ ResolveStep(c)
    \/ ExistsStep(c)
    \/ ReadStep(c)

WorldStep ==
    \/ \E p \in PathsOf(OnDisk), s \in FileStates : FsChange(p, s)
    \/ \E r \in RelPathsOf(OnDisk) : ResolverChange(r)

\* One caller at a time, in a world that changes under it.
Next == CallerStep(1) \/ WorldStep
Spec == Init /\ [][Next]_vars

\* Concurrent callers, in a world that stays as it is: a resolver that works,
\* any filesystem, either build (CARGO_MANIFEST_DIR, which a release build
\* never reads, left unset there).
InitConc ==
    /\ Init
    /\ unresolvable = {}
    /\ ~debug_assertions => ~cargoManifestDir.ok
NextConc == \E c \in Callers : CallerStep(c)
SpecConc == InitConc /\ [][NextConc]_vars

\* ------------------------------------------- the call, run on its own
\* lines 37-48: the loop from candidate k on, with nothing interleaved.
RECURSIVE SearchFrom(_, _)
SearchFrom(f, k) ==
    IF k > Len(MaybePaths(f))
      THEN Err(NotFoundMsg(f))
      ELSE LET r == Resolve(MaybePaths(f)[k]) IN
             IF r.ok /\ Exists(r.val)
               THEN LET b == FsRead(r.val) IN
                      IF b.ok THEN b ELSE Err(ReadMsg(r.val, b.val))
               ELSE SearchFrom(f, k + 1)

\* lines 12-49: load_audio_asset(app, filename), with nothing interleaved.
LoadAudioAsset(f) ==
    IF debug_assertions /\ ~cargoManifestDir.ok
      THEN Err(cargoManifestDir.val)
      ELSE IF debug_assertions /\ Exists(DevPath(cargoManifestDir.val, f))
             THEN LET p == DevPath(cargoManifestDir.val, f)
                      b == FsRead(p) IN
                    IF b.ok THEN b ELSE Err(DevReadMsg(p, b.val))
             ELSE SearchFrom(f, 1)

\* ===================================================================
\* The claims.  They speak of the candidates and of the development path
\* in their own words, which are written down here once.
\* ===================================================================
Done(c) == pc[c] = "done"

\* The four production candidates, in the order the claims give them.
Candidates(f) ==
    << "resources/audio/" \o f, "resources/" \o f, "audio/" \o f, f >>
\* <resource dir>/<candidate>
CandidatePath(f, k) == ResourceDir \o "/" \o Candidates(f)[k]
\* <manifest-dir>/resources/audio/<f>
TheDevPath(f) == ManifestDirValue \o "/resources/audio/" \o f

\* The candidates that resolve and whose resolved path exists.
Hits(f) == {k \in 1..4 : Candidates(f)[k] \notin unresolvable
                          /\ fs[CandidatePath(f, k)] # "absent"}
FirstHit(f) == CHOOSE k \in Hits(f) : \A j \in Hits(f) : k <= j
DevPathExists(f) == fs[TheDevPath(f)] # "absent"

ReadFailures ==
    {DevReadMsg(p, e) : p \in Paths, e \in IoCauses}
        \cup {ReadMsg(p, e) : p \in Paths, e \in IoCauses}
NotFounds == {NotFoundMsg(f) : f \in Filenames}

\* C1: when the development check is not taken (production mode, or
\* development mode with the dev path absent) and all reads succeed, the
\* call returns exactly the bytes of the lowest-index candidate that
\* resolves and exists.
C1_FirstMatchWins ==
    \A c \in Callers :
        (/\ Done(c) /\ stable[c]
         /\ (~debug_assertions \/ ~DevPathExists(filename[c]))
         /\ Hits(filename[c]) # {}
         /\ fs[CandidatePath(filename[c], FirstHit(filename[c]))] = "readable")
        => result[c] = Ok(Contents(CandidatePath(filename[c], FirstHit(filename[c]))))

\* C3: if no candidate path exists (neither the dev path in development
\* mode nor any production candidate that resolves), the call fails with
\* exactly "Could not find audio file <f> in resources".
C3_NotFoundNamesFile ==
    \A c \in Callers :
        (/\ Done(c) /\ stable[c]
         /\ (debug_assertions => ~DevPathExists(filename[c]))
         /\ Hits(filename[c]) = {})
        => result[c] = Err(NotFoundMsg(filename[c]))

\* C7: every call ends with a file's bytes, a ReadFailure message or the
\* NotFound message, and in development mode a call whose dev path is not
\* found goes on to search the production candidates.
C7_ThreeOutcomes ==
    \A c \in Callers :
        Done(c) =>
          /\ \/ result[c].ok
             \/ result[c].val \in ReadFailures
             \/ result[c].val \in NotFounds
          /\ (debug_assertions /\ ~(\E i \in DOMAIN ops[c] :
                                      ops[c][i] = Op("exists", TheDevPath(filename[c]), TRUE)))
                => \E i \in DOMAIN ops[c] : ops[c][i].op = "resolve"

\* ------------------------------------------------ reading the record
TheFile(c) == filename[c]
NumOps(c) == Len(ops[c])
\* Place i of the record is an existence check that found its path.
FoundAt(c, i) == ops[c][i].op = "exists" /\ ops[c][i].ok
\* The number of the candidate a resolve at place i is about.
ResolvesUpTo(c, i) == Cardinality({j \in 1..i : ops[c][j].op = "resolve"})
\* The message a failed read of p must produce.
ReadFailureOf(c, p) ==
    {Err(IF p = TheDevPath(TheFile(c)) THEN DevReadMsg(p, e) ELSE ReadMsg(p, e)) :
        e \in IoCauses}

\* C2: once a path (the dev path or a candidate) is found to exist, the
\* next and last thing the call does is read it; if that read fails, also
\* because the file went away in between, the call returns the ReadFailure
\* naming that path, and no later candidate is resolved, checked or read.
C2_ReadFailureTerminal ==
    \A c \in Callers : \A i \in DOMAIN ops[c] :
        FoundAt(c, i) =>
            /\ NumOps(c) <= i + 1
            /\ (Done(c) <=> NumOps(c) = i + 1)
            /\ (NumOps(c) = i + 1) =>
                   /\ ops[c][i + 1].op = "read"
                   /\ ops[c][i + 1].path = ops[c][i].path
                   /\ (~ops[c][i + 1].ok =>
                          result[c] \in ReadFailureOf(c, ops[c][i].path))

\* C2's case: the first candidate was there when checked and gone when read,
\* while a later candidate is there and readable.
C2_Witness ==
    \E c \in Callers :
        /\ Done(c) /\ NumOps(c) >= 1
        /\ ops[c][NumOps(c)] = Op("read", CandidatePath(TheFile(c), 1), FALSE)
        /\ result[c] = Err(ReadMsg(CandidatePath(TheFile(c), 1), IoNotFound))
        /\ \E k \in 2..4 : k \in Hits(TheFile(c))
                            /\ fs[CandidatePath(TheFile(c), k)] = "readable"

\* C4: in production mode the development path is never checked or read,
\* and a call that finds no production candidate is NotFound even when the
\* would-be dev path exists.
C4_ProductionSkipsDev ==
    \A c \in Callers :
        ~debug_assertions =>
            /\ pc[c] \notin {"env", "devExists", "devRead"}
            /\ \A i \in DOMAIN ops[c] : ops[c][i].path # TheDevPath(TheFile(c))
            /\ (Done(c) /\ stable[c] /\ Hits(TheFile(c)) = {})
                   => result[c] = Err(NotFoundMsg(TheFile(c)))

\* C4's case: production, the would-be dev path holds a readable file, no
\* production candidate exists.
C4_Witness ==
    \E c \in Callers :
        /\ ~debug_assertions /\ cargoManifestDir.ok
        /\ Done(c) /\ stable[c]
        /\ fs[TheDevPath(TheFile(c))] = "readable"
        /\ Hits(TheFile(c)) = {}
        /\ result[c] = Err(NotFoundMsg(TheFile(c)))

\* C5: in development mode, once the dev path is found to exist the call
\* only reads it and returns its bytes or the dev-path read error; no
\* production candidate is resolved, checked or read.
C5_DevPathDecides ==
    \A c \in Callers :
        (/\ debug_assertions
         /\ NumOps(c) >= 1
         /\ ops[c][1] = Op("exists", TheDevPath(TheFile(c)), TRUE))
        => /\ NumOps(c) <= 2
           /\ \A i \in DOMAIN ops[c] : /\ ops[c][i].path = TheDevPath(TheFile(c))
                                       /\ ops[c][i].op # "resolve"
           /\ (Done(c) <=> NumOps(c) = 2)
           /\ Done(c) =>
                 /\ ops[c][2].op = "read"
                 /\ IF ops[c][2].ok
                      THEN result[c] = Ok(Contents(TheDevPath(TheFile(c))))
                      ELSE result[c] \in
                             {Err(DevReadMsg(TheDevPath(TheFile(c)), e)) : e \in IoCauses}

\* C5's case: the dev file exists and cannot be read while a production
\* candidate exists and can.
C5_Witness ==
    \E c \in Callers :
        /\ debug_assertions /\ Done(c)
        /\ result[c] = Err(DevReadMsg(TheDevPath(TheFile(c)), IoPermissionDenied))
        /\ Hits(TheFile(c)) # {}
        /\ fs[CandidatePath(TheFile(c), FirstHit(TheFile(c)))] = "readable"

\* C6: a resolver failure for a candidate is followed by the resolution of
\* the next candidate (or, after the last one, by NotFound); the resolver's
\* error is never the result, a call that exhausts the candidates reports
\* NotFound, and a later candidate that resolves and exists is still the
\* one returned.
C6_ResolverFailureSkipped ==
    \A c \in Callers :
        /\ \A i \in DOMAIN ops[c] :
              (ops[c][i].op = "resolve" /\ ~ops[c][i].ok) =>
                 LET k == ResolvesUpTo(c, i) IN
                   /\ (i < NumOps(c)) =>
                          /\ k < 4
                          /\ ops[c][i + 1].op = "resolve"
                          /\ ops[c][i + 1].path = Candidates(TheFile(c))[k + 1]
                   /\ (i = NumOps(c) /\ k < 4) => pc[c] = "resolve" /\ idx[c] = k + 1
                   /\ (i = NumOps(c) /\ k = 4) =>
                          Done(c) /\ result[c] = Err(NotFoundMsg(TheFile(c)))
        /\ result[c] # Err(ResolveError)
        /\ (/\ Done(c) /\ ResolvesUpTo(c, NumOps(c)) = 4
            /\ \A i \in DOMAIN ops[c] : ~FoundAt(c, i))
           => result[c] = Err(NotFoundMsg(TheFile(c)))
        /\ (/\ Done(c) /\ stable[c]
            /\ \E i \in DOMAIN ops[c] : ops[c][i].op = "resolve" /\ ~ops[c][i].ok
            /\ Hits(TheFile(c)) # {})
           => LET p == CandidatePath(TheFile(c), FirstHit(TheFile(c))) IN
                result[c] = IF fs[p] = "readable" THEN Ok(Contents(p))
                                                  ELSE Err(ReadMsg(p, IoPermissionDenied))

\* C6's case: the resolver failed on the first candidate and the bytes of a
\* later one came back.
C6_Witness ==
    \E c \in Callers :
        /\ Done(c) /\ stable[c]
        /\ \E i \in DOMAIN ops[c] :
              ops[c][i] = Op("resolve", Candidates(TheFile(c))[1], FALSE)
        /\ \E k \in 2..4 : result[c] = Ok(Contents(CandidatePath(TheFile(c), k)))

\* C9: the candidates are resolved in the order resources/audio/<f>,
\* resources/<f>, audio/<f>, <f>, each at most once, each only after the one
\* before it failed to resolve or was found not to exist; an existence check
\* follows the successful resolution of its path; nothing but the read
\* follows a check that found its path.
C9_CandidateOrder ==
    \A c \in Callers : \A i \in DOMAIN ops[c] :
        LET o == ops[c][i]
            k == ResolvesUpTo(c, i)
            dev == TheDevPath(TheFile(c)) IN
          /\ (o.op = "resolve") =>
                /\ k <= 4
                /\ o.path = Candidates(TheFile(c))[k]
                /\ (k = 1) => \/ i = 1
                              \/ i = 2 /\ ops[c][1] = Op("exists", dev, FALSE)
                /\ (k > 1) =>
                      \/ ops[c][i - 1] = Op("resolve", Candidates(TheFile(c))[k - 1], FALSE)
                      \/ ops[c][i - 1] = Op("exists", CandidatePath(TheFile(c), k - 1), FALSE)
          /\ (o.op = "exists" /\ o.path # dev) =>
                /\ k >= 1
                /\ ops[c][i - 1] = Op("resolve", Candidates(TheFile(c))[k], TRUE)
                /\ o.path = CandidatePath(TheFile(c), k)
          /\ (o.op = "exists" /\ o.ok) =>
                \A j \in DOMAIN ops[c] : j > i => ops[c][j].op = "read"

\* C9's case: the resolver failed on one candidate, another was found not
\* to exist, and the call went through to the fourth.
C9_Witness ==
    \E c \in Callers :
        /\ Done(c)
        /\ ResolvesUpTo(c, NumOps(c)) = 4
        /\ \E i \in DOMAIN ops[c] : ops[c][i].op = "resolve" /\ ~ops[c][i].ok
        /\ \E i \in DOMAIN ops[c] : ops[c][i].op = "exists" /\ ~ops[c][i].ok
        /\ result[c] = Ok(Contents(CandidatePath(TheFile(c), 4)))

\* C10: a step of a call leaves the filesystem (and the resolver) as it
\* was; a call reads at most one file, the read is the last thing it does,
\* and bytes it returns are bytes it read itself.
C10_ReadOnlyOneRead ==
    /\ [][(pc' # pc) => (fs' = fs /\ unresolvable' = unresolvable)]_vars
    /\ [](\A c \in Callers :
            /\ Cardinality({i \in DOMAIN ops[c] : ops[c][i].op = "read"}) <= 1
            /\ \A i \in DOMAIN ops[c] :
                  ops[c][i].op = "read" => (i = NumOps(c) /\ Done(c))
            /\ (Done(c) /\ result[c].ok) =>
                  /\ NumOps(c) >= 1
                  /\ ops[c][NumOps(c)].op = "read" /\ ops[c][NumOps(c)].ok
                  /\ result[c] = Ok(Contents(ops[c][NumOps(c)].path)))

\* C10's case: the only read failed on a file that cannot be read, a later
\* candidate is readable, and the world changed during the call.
C10_Witness ==
    \E c \in Callers :
        /\ Done(c) /\ ~stable[c] /\ NumOps(c) >= 1
        /\ \E k \in 1..3 :
              /\ ops[c][NumOps(c)] = Op("read", CandidatePath(TheFile(c), k), FALSE)
              /\ result[c] = Err(ReadMsg(CandidatePath(TheFile(c), k), IoPermissionDenied))
              /\ \E j \in (k + 1)..4 : /\ j \in Hits(TheFile(c))
                                       /\ fs[CandidatePath(TheFile(c), j)] = "readable"

\* C8: with the filesystem and the resolver unchanged, every call of any
\* interleaving ends as it would alone, and two calls for the same
\* filename end alike.
C8_CallsIndependent ==
    /\ \A c \in Callers : Done(c) => result[c] = LoadAudioAsset(TheFile(c))
    /\ \A c, d \in Callers :
          (Done(c) /\ Done(d) /\ TheFile(c) = TheFile(d)) => result[c] = result[d]

\* C8's case: two calls for different filenames under way at once, one about
\* to read its first candidate, the other past its first candidate.
C8_Witness ==
    \E c, d \in Callers :
        /\ c # d /\ TheFile(c) # TheFile(d)
        /\ pc[c] = "read" /\ idx[c] = 1
        /\ pc[d] = "resolve" /\ idx[d] = 2
====
